---- MODULE Spec2Model ----
(***************************************************************************)
(* A model of scrape.py: the article mirror synchronisation (main), the    *)
(* field enrichment (add_data_to_articles), the Atom feed assembly         *)
(* (create_atom_feeds / generate_atom_feed) and the Git history writer     *)
(* (batch_process_timestamps / commit_file_with_timestamp).                *)
(*                                                                         *)
(* Python dicts are functions with a string domain (a key that is absent   *)
(* is absent from the DOMAIN).  A createTime string is one of EmptyStr,    *)
(* BadStr (non-empty, not "%Y-%m-%d %H:%M:%S") or TimeStr(t), the string   *)
(* that strptime parses to t seconds after the Unix epoch.                 *)
(*                                                                         *)
(* ArticleMenu.json, README.md and the two feed files are written by a run *)
(* and read by none of its steps; of these only the feed documents are     *)
(* modelled (FeedSpec).  An index entry whose articleId is present but     *)
(* falsy takes the branches of an entry without articleId.                 *)
(*                                                                         *)
(* The content of a feed entry is a text, a sequence of characters, taken  *)
(* through the stages of generate_atom_feed (NormSpec), and the stage      *)
(* format_discord_links is also run on its own (LinkSpec).  markdownify    *)
(* and mdformat are libraries outside the repository: the model starts     *)
(* from the text the converter returned, and MdFormat is mdformat.text on  *)
(* the documents the stages hand to it.                                    *)
(***************************************************************************)
EXTENDS Integers, Sequences, FiniteSets, TLC

\* ------------------------------------------------------------- bounds
NumIds == 2
MaxIndexLen == 2
MaxRuns == 2
MaxTime == 3
MaxFeedLen == 3
MaxTextLen == 4
MaxLinkParts == 2

\* ---------------------------------------------------- program constants
amount_of_articles == 20
Tolerance == 1

VARIABLES
    pc,               \* "idle" | "fetching" | "done": position of main()
    runs,             \* number of runs of main() started so far
    mirror,           \* articles/<id>.json: NoFile, Corrupt or Json(data)
    mtime,            \* st_mtime of articles/<id>.json (0 when no file)
    gitLog,           \* the commits of the repository, oldest first
    staged,           \* ids of the files in the Git index (added, not committed)
    menu_data,        \* main's menu_data (the fetched ArticleMenu.json)
    existing_files,   \* main's existing_files
    new_article_ids,  \* main's new_article_ids
    results,          \* main's results (Pending until the download completes)
    write_results,    \* what save_prettified_json did for each result ("ok" when not called)
    exit_code,        \* "-" running, "0" / "1" returned, "raised" uncaught exception
    commitCalls,      \* the calls of commit_file_with_timestamp of the last run
    mirror0,          \* mirror, mtime, gitLog as they were when the run started
    mtime0,
    gitLog0,
    \* the Field Enrichment Merger applied to one record and one index entry
    m_pc,             \* "start" | "merged" | "again"
    m_record,         \* the record read from the article file
    m_item,           \* the index entry
    m_merged,         \* article_data after the merge loop
    m_again,          \* article_data after the merge loop ran on m_merged again
    \* create_atom_feeds run by two separate processes over the same records
    f_pc,             \* "start" | "first" | "second"
    f_loaded,         \* the records json.load returned, in glob order
    f_first,          \* what the first process produced
    f_second,         \* what the second process produced
    \* the content of one feed entry
    n_pc,             \* "start" | "once" | "twice"
    n_converted,      \* converter.convert(article_content).strip()
    n_content,        \* article_escaped
    n_again,          \* the stages applied to article_escaped
    \* format_discord_links on its own
    l_pc,             \* "start" | "done"
    l_parts,          \* the links and the text between them that make up md
    l_links           \* what format_discord_links returned

syncVars == <<pc, runs, mirror, mtime, gitLog, staged, menu_data, existing_files,
              new_article_ids, results, write_results, exit_code, commitCalls,
              mirror0, mtime0, gitLog0>>
mergeVars == <<m_pc, m_record, m_item, m_merged, m_again>>
feedVars == <<f_pc, f_loaded, f_first, f_second>>

normVars == <<n_pc, n_converted, n_content, n_again>>
linkVars == <<l_pc, l_parts, l_links>>

vars == <<syncVars, mergeVars, feedVars, normVars, linkVars>>

\* ------------------------------------------------------------ values
Ids == 1..NumIds
Times == 1..MaxTime

EmptyStr == [fmt |-> "empty"]
BadStr == [fmt |-> "bad"]
TimeStr(t) == [fmt |-> "ok", t |-> t]

NoFile == [kind |-> "none"]
Corrupt == [kind |-> "corrupt"]
Json(data) == [kind |-> "json", data |-> data]

Pending == [kind |-> "pending"]

\* dict.get(key, default)
Get(d, key, default) == IF key \in DOMAIN d THEN d[key] ELSE default

\* truthiness of a createTime value: `if create_time`, `if not timestamp_str`
Truthy(s) == s.fmt # "empty"

\* datetime.strptime(s, "%Y-%m-%d %H:%M:%S") succeeds
Parses(s) == s.fmt = "ok"

\* The wall clock of a run: later than every createTime by more than Tolerance.
Now(r) == MaxTime + Tolerance + 1 + r

\* ------------------------------------------------------------ inputs
\* An entry of ArticleMenu.json: articleId and createTime may each be absent.
IndexCreateTimes == {BadStr} \cup {TimeStr(t) : t \in Times}

IndexItems ==
    {[articleTitle |-> "T"]}
    \cup {[articleTitle |-> "T", articleId |-> i] : i \in Ids}
    \cup {[articleTitle |-> "T", articleId |-> i, createTime |-> c] :
            i \in Ids, c \in IndexCreateTimes}

Indexes == UNION {[1..n -> IndexItems] : n \in 0..MaxIndexLen}

\* The body of article/<id>.json as the CDN returns it.
Bodies ==
    {[articleTitle |-> "T"],
     [articleTitle |-> "T", createTime |-> BadStr]}

\* What one download task yields to asyncio.gather(return_exceptions=True).
FetchOutcomes ==
    {[kind |-> "exc"],       \* raise_for_status: HTTPStatusError is not caught by fetch_json
     [kind |-> "none"],      \* RequestError / JSONDecodeError: None (falsy, as is an empty document)
     [kind |-> "notdict"]}   \* a non-empty JSON document that is not an object
    \cup {[kind |-> "dict", body |-> b] : b \in Bodies}

WriteOutcomes == {"ok", "open_failed", "write_failed"}
CommitOutcomes == {"ok", "log_error", "add_error", "commit_error"}

\* ------------------------------------------------------- Sync Planner
\* main: article_ids = [str(item["articleId"]) for item in menu_data if item.get("articleId")]
RECURSIVE ArticleIds(_)
ArticleIds(menu) ==
    IF menu = <<>> THEN <<>>
    ELSE LET item == Head(menu)
         IN (IF "articleId" \in DOMAIN item THEN <<item.articleId>> ELSE <<>>)
            \o ArticleIds(Tail(menu))

\* main: existing_files = [file.stem for file in output_dir.glob("*.json") ...]
ExistingFiles(mir) == {id \in Ids : mir[id] # NoFile}

\* as NewArticleIds, without the filter on existing_files
NewArticleIdsDropFilter(article_ids, existing) == article_ids

\* main: new_article_ids = [a for a in article_ids if a not in existing_files]
NewArticleIds(article_ids, existing) ==
    LET Absent(a) == a \notin existing IN SelectSeq(article_ids, Absent)

\* ------------------------------------------------------- Local Mirror
\* save_prettified_json: open(filepath, "w") creates or truncates the file, then
\* the document is written; any exception is logged and False is returned.
SavePrettifiedJson(files, id, data, outcome, now) ==
    CASE outcome = "ok" ->
            [mirror |-> [files.mirror EXCEPT ![id] = Json(data)],
             mtime |-> [files.mtime EXCEPT ![id] = now]]
      [] outcome = "write_failed" ->
            [mirror |-> [files.mirror EXCEPT ![id] = Corrupt],
             mtime |-> [files.mtime EXCEPT ![id] = now]]
      [] OTHER -> files

\* main: the checks on one result of asyncio.gather before it is saved
IsSavedResult(r) ==
    /\ r.kind # "exc"                  \* isinstance(result, Exception): continue
    /\ r.kind # "none"                 \* not result: continue
    /\ r.kind = "dict"                 \* isinstance(result, dict)

\* as SaveResults, but the loop ends at the first result that is not saved
RECURSIVE SaveResultsStopAtFailure(_, _, _, _, _, _)
SaveResultsStopAtFailure(i, ids, res, w, files, now) ==
    IF i > Len(res) \/ ~IsSavedResult(res[i]) THEN files
    ELSE SaveResultsStopAtFailure(i + 1, ids, res, w,
                                  SavePrettifiedJson(files, ids[i], res[i].body, w[i], now),
                                  now)

\* main: for i, result in enumerate(results): ... save_prettified_json(result, output_file)
RECURSIVE SaveResults(_, _, _, _, _, _)
SaveResults(i, ids, res, w, files, now) ==
    IF i > Len(res) THEN files
    ELSE SaveResults(i + 1, ids, res, w,
                     IF IsSavedResult(res[i])
                     THEN SavePrettifiedJson(files, ids[i], res[i].body, w[i], now)
                     ELSE files,
                     now)

\* --------------------------------------------- Field Enrichment Merger
EnrichKeys == {"articleDesc", "createTime", "sortingMark", "suggestCover", "top"}

\* as MergeKeys, without the test `key not in article_data` (dict.update)
MergeKeysOverwrite(article_data, item) ==
    [k \in DOMAIN article_data \cup (EnrichKeys \cap DOMAIN item) |->
        IF k \in EnrichKeys \cap DOMAIN item THEN item[k] ELSE article_data[k]]

\* add_data_to_articles: for key in [...]: if key in item and key not in
\* article_data: article_data[key] = item[key]
MergeKeys(article_data, item) ==
    [k \in DOMAIN article_data \cup (EnrichKeys \cap DOMAIN item) |->
        IF k \in DOMAIN article_data THEN article_data[k] ELSE item[k]]

\* add_data_to_articles, one item whose file was read: old_article_data is bound
\* to the same dict object as article_data, so after the in-place merge both
\* names denote the merged dict and the comparison never sees a difference.
AddDataToArticle(data, item) ==
    LET article_data == MergeKeys(data, item)
        old_article_data == article_data
    IN IF old_article_data # article_data
       THEN [written |-> TRUE, data |-> article_data]
       ELSE [written |-> FALSE, data |-> data]

\* add_data_to_articles: the loop over menu_data
RECURSIVE AddDataToArticles(_, _, _)
AddDataToArticles(menu, files, now) ==
    IF menu = <<>> THEN files
    ELSE LET item == Head(menu)
             id == Get(item, "articleId", 0)
             merged == AddDataToArticle(files.mirror[id].data, item)
         IN AddDataToArticles(
                Tail(menu),
                IF /\ "articleId" \in DOMAIN item      \* if not article_id: continue
                   /\ files.mirror[id].kind = "json"   \* is_file() and json.load succeeds
                   /\ merged.written
                THEN [mirror |-> [files.mirror EXCEPT ![id] = Json(merged.data)],
                      mtime |-> [files.mtime EXCEPT ![id] = now]]
                ELSE files,
                now)

\* ------------------------------------------------------ Feed Assembler
\* get_file_timestamp: 0.0 for an empty or unparseable string
get_file_timestamp(timestamp_str) ==
    IF ~Truthy(timestamp_str) THEN 0
    ELSE IF Parses(timestamp_str) THEN timestamp_str.t ELSE 0

SortKey(x) == get_file_timestamp(Get(x, "createTime", EmptyStr))

\* create_atom_feeds: sorted(menu_data, key=..., reverse=True); Python's sort is
\* stable and reverse=True keeps the input order of records with equal keys.
RECURSIVE SortArticles(_)
SortArticles(s) ==
    IF s = <<>> THEN <<>>
    ELSE LET n == Len(s)
             x == s[n]
             acc == SortArticles(SubSeq(s, 1, n - 1))
             NotBelow(y) == SortKey(y) >= SortKey(x)
             Below(y) == SortKey(y) < SortKey(x)
         IN SelectSeq(acc, NotBelow) \o <<x>> \o SelectSeq(acc, Below)

\* datetime.isoformat() of a parsed createTime
Iso(t) == [fmt |-> "iso", t |-> t]

\* hash(str): keyed by the interpreter's per-process hash seed
PyHash(title, create_time, seed) ==
    [seed |-> seed, title |-> title, createTime |-> create_time]

\* generate_atom_feed: entry_id
EntryId(article, seed) ==
    IF "articleId" \in DOMAIN article
    THEN [urn |-> "article", id |-> article.articleId]
    ELSE [urn |-> "unknown-article",
          hash |-> PyHash(Get(article, "articleTitle", ""),
                          Get(article, "createTime", EmptyStr), seed)]

\* generate_atom_feed: strptime of a non-empty createTime raises ValueError
\* when the string does not match the format; nothing catches it.
StrptimeRaises(article) ==
    LET ct == Get(article, "createTime", EmptyStr) IN Truthy(ct) /\ ~Parses(ct)

\* generate_atom_feed: latest_entry
LatestEntry(articles, now) ==
    IF articles = <<>> THEN Iso(now)
    ELSE LET ct == Get(articles[1], "createTime", EmptyStr)
         IN IF Truthy(ct) THEN Iso(ct.t) ELSE EmptyStr

\* generate_atom_feed: one <entry>
FeedEntry(article, latest_entry, seed) ==
    LET ct == Get(article, "createTime", EmptyStr)
    IN [id |-> EntryId(article, seed),
        published |-> IF Truthy(ct) THEN Iso(ct.t) ELSE EmptyStr,
        updated |-> IF Truthy(ct) THEN Iso(ct.t) ELSE latest_entry]

\* generate_atom_feed(articles, file_name)
GenerateAtomFeed(articles, now, seed) ==
    IF \E i \in 1..Len(articles) : StrptimeRaises(articles[i])
    THEN [raised |-> TRUE]
    ELSE [raised |-> FALSE,
          updated |-> LatestEntry(articles, now),
          entries |-> [i \in 1..Len(articles) |->
                          FeedEntry(articles[i], LatestEntry(articles, now), seed)]]

Min(a, b) == IF a <= b THEN a ELSE b

\* create_atom_feeds, given the records loaded from the mirror in glob order:
\* the bounded feed, then the full feed; the second is not written when the
\* first raises.
CreateAtomFeeds(loaded, now, seed) ==
    IF loaded = <<>> THEN [raised |-> FALSE, written |-> FALSE]
    ELSE LET articles_sorted == SortArticles(loaded)
             latest_articles ==
                 SubSeq(articles_sorted, 1, Min(amount_of_articles, Len(articles_sorted)))
             latest == GenerateAtomFeed(latest_articles, now, seed)
             all == GenerateAtomFeed(articles_sorted, now, seed)
         IN IF latest.raised \/ all.raised
            THEN [raised |-> TRUE, written |-> FALSE]
            ELSE [raised |-> FALSE, written |-> TRUE, latest |-> latest, all |-> all]

\* create_atom_feeds: the records json.load returns, here in ascending id order
RECURSIVE LoadArticles(_, _)
LoadArticles(mir, id) ==
    IF id > NumIds THEN <<>>
    ELSE (IF mir[id].kind = "json" THEN <<mir[id].data>> ELSE <<>>)
         \o LoadArticles(mir, id + 1)

\* ------------------------------------------------------ History Writer
\* batch_process_timestamps: the keys of timestamp_map, in insertion order (a
\* dict keeps the position of the first assignment of a key)
RECURSIVE TimestampMapKeys(_, _)
TimestampMapKeys(menu, seen) ==
    IF menu = <<>> THEN <<>>
    ELSE LET item == Head(menu)
             id == Get(item, "articleId", 0)
             usable == /\ "articleId" \in DOMAIN item
                       /\ Truthy(Get(item, "createTime", EmptyStr))
         IN IF usable /\ id \notin seen
            THEN <<id>> \o TimestampMapKeys(Tail(menu), seen \cup {id})
            ELSE TimestampMapKeys(Tail(menu), seen)

\* batch_process_timestamps: timestamp_map[article_id] (the last assignment wins)
RECURSIVE TimestampMapValue(_, _, _)
TimestampMapValue(menu, id, sofar) ==
    IF menu = <<>> THEN sofar
    ELSE LET item == Head(menu)
             hit == /\ "articleId" \in DOMAIN item
                    /\ item.articleId = id
                    /\ Truthy(Get(item, "createTime", EmptyStr))
         IN TimestampMapValue(Tail(menu), id, IF hit THEN item.createTime ELSE sofar)

Abs(x) == IF x < 0 THEN 0 - x ELSE x

\* batch_process_timestamps: whether (file_path, create_time) joins files_to_update
NeedsUpdate(mir, mt, id, create_time) ==
    /\ mir[id] # NoFile                                  \* file_path.exists()
    /\ get_file_timestamp(create_time) # 0               \* expected_timestamp == 0.0: continue
    /\ Abs(mt[id] - get_file_timestamp(create_time)) > Tolerance

\* batch_process_timestamps: files_to_update, as (id, create_time) pairs
FilesToUpdate(menu, mir, mt) ==
    LET keys == TimestampMapKeys(menu, {})
        pairs == [i \in 1..Len(keys) |->
                    [id |-> keys[i],
                     create_time |-> TimestampMapValue(menu, keys[i], EmptyStr)]]
        Selected(p) == NeedsUpdate(mir, mt, p.id, p.create_time)
    IN SelectSeq(pairs, Selected)

\* git log --pretty=format:%H --follow <file> prints something
LogHas(log, id) == \E i \in 1..Len(log) : id \in log[i].files

\* as CommitFileWithTimestamp, without the look at the history first
CommitFileAlways(hw, id, outcome) ==
    IF outcome = "ok"
    THEN [hw EXCEPT !.gitLog = Append(hw.gitLog,
                                      [files |-> hw.staged \cup {id}, time |-> hw.mtime[id]]),
                    !.staged = {}, !.result = TRUE]
    ELSE [hw EXCEPT !.result = FALSE]

\* commit_file_with_timestamp(filepath); hw is the state of the files and of the
\* repository, outcome is what the Git commands of this call do.
CommitFileWithTimestamp(hw, id, outcome) ==
    CASE outcome = "log_error" ->      \* git log exits non-zero: return False
            [hw EXCEPT !.result = FALSE]
      [] outcome # "log_error" /\ LogHas(hw.gitLog, id) ->   \* already in history: return True
            [hw EXCEPT !.result = TRUE]
      [] outcome = "add_error" /\ ~LogHas(hw.gitLog, id) ->  \* git add exits non-zero
            [hw EXCEPT !.result = FALSE]
      [] outcome = "commit_error" /\ ~LogHas(hw.gitLog, id) -> \* staged, git commit fails
            [hw EXCEPT !.staged = hw.staged \cup {id}, !.result = FALSE]
      [] OTHER ->                      \* git add, then git commit with the file's mtime
            [hw EXCEPT !.gitLog = Append(hw.gitLog,
                                         [files |-> hw.staged \cup {id},
                                          time |-> hw.mtime[id]]),
                       !.staged = {},
                       !.result = TRUE]

\* set_file_timestamp(filepath, timestamp_str): os.utime with the parsed time,
\* or False when strptime raises ValueError
SetFileTimestamp(hw, id, timestamp_str) ==
    IF Parses(timestamp_str)
    THEN [hw EXCEPT !.mtime = [hw.mtime EXCEPT ![id] = timestamp_str.t], !.result = TRUE]
    ELSE [hw EXCEPT !.result = FALSE]

\* batch_process_timestamps: the loop over files_to_update; every call of
\* commit_file_with_timestamp is recorded in hw.calls.
RECURSIVE UpdateAndCommit(_, _, _)
UpdateAndCommit(todo, hw, c) ==
    IF todo = <<>> THEN hw
    ELSE LET p == Head(todo)
             set == SetFileTimestamp(hw, p.id, p.create_time)
             done == CommitFileWithTimestamp(set, p.id, c[p.id])
             call == [file |-> p.id,
                      outcome |-> c[p.id],
                      create_time |-> p.create_time,
                      mtime |-> set.mtime[p.id],
                      mtimes |-> set.mtime,
                      logBefore |-> set.gitLog,
                      stagedBefore |-> set.staged,
                      logAfter |-> done.gitLog,
                      stagedAfter |-> done.staged,
                      result |-> done.result]
         IN UpdateAndCommit(Tail(todo),
                            IF set.result
                            THEN [done EXCEPT !.calls = Append(hw.calls, call)]
                            ELSE set,
                            c)

\* batch_process_timestamps(menu_data, output_dir)
BatchProcessTimestamps(menu, mir, mt, log, stg, c) ==
    UpdateAndCommit(FilesToUpdate(menu, mir, mt),
                    [mtime |-> mt, gitLog |-> log, staged |-> stg,
                     calls |-> <<>>, result |-> TRUE],
                    c)

\* ------------------------------------------------- Markdown Normalizer
\* A text is a sequence of characters.  A run of characters no stage looks
\* into is written as one character ("a", "https://", "www."), and the glyphs
\* are named: "(star)" U+2726, "(ball)" U+25CF, "(ref)" U+203B, "(1)".."(10)"
\* the circled digits U+2460..U+2469, "nbsp" U+00A0, "(fence)" a code fence of three backquotes.
NL == "\n"
SpaceChars == {" ", "\t", NL}        \* \s, once nbsp is replaced
BlankChars == {" ", "\t"}            \* [ \t]
NoMatch == 0 - 1

SetMin(S) == CHOOSE x \in S : \A y \in S : x <= y
SetMax(S) == CHOOSE x \in S : \A y \in S : x >= y

\* the first position from i on whose character is in S, else Len(t) + 1
FirstIn(t, i, S) ==
    LET hits == {j \in i..Len(t) : t[j] \in S}
    IN IF hits = {} THEN Len(t) + 1 ELSE SetMin(hits)

\* the first position from i on whose character is not in S, else Len(t) + 1
FirstNotIn(t, i, S) ==
    LET hits == {j \in i..Len(t) : t[j] \notin S}
    IN IF hits = {} THEN Len(t) + 1 ELSE SetMin(hits)

\* ^ with re.MULTILINE
AtLineStart(t, i) == i = 1 \/ t[i - 1] = NL

\* \s*$ with re.MULTILINE, tried at position from: the last position it
\* consumes (from - 1 when it consumes nothing), or NoMatch.  The greedy \s*
\* takes the whole run of whitespace and gives back until $ matches: at the
\* end of the text, or just before the last newline of the run.
TailEnd(t, from) ==
    LET e == FirstNotIn(t, from, SpaceChars)
        nls == {j \in from..(e - 1) : t[j] = NL}
    IN IF e = Len(t) + 1 THEN Len(t)
       ELSE IF nls = {} THEN NoMatch
       ELSE SetMax(nls) - 1

\* str.strip()
Strip(t) ==
    LET first == FirstNotIn(t, 1, SpaceChars)
        keep == {j \in 1..Len(t) : t[j] \notin SpaceChars}
    IN IF keep = {} THEN <<>> ELSE SubSeq(t, first, SetMax(keep))

\* str.splitlines()
RECURSIVE SplitLines(_)
SplitLines(t) ==
    IF t = <<>> THEN <<>>
    ELSE LET n == FirstIn(t, 1, {NL})
         IN <<SubSeq(t, 1, n - 1)>> \o SplitLines(SubSeq(t, n + 1, Len(t)))

\* sep.join(lines)
RECURSIVE Join(_, _)
Join(lines, sep) ==
    IF lines = <<>> THEN <<>>
    ELSE IF Len(lines) = 1 THEN lines[1]
    ELSE lines[1] \o sep \o Join(Tail(lines), sep)

\* generate_atom_feed: re.sub(r"\xa0", " ", ...) and .replace(nbsp, " ")
NonBreakingSpaceRemoved(t) == [i \in 1..Len(t) |-> IF t[i] = "nbsp" THEN " " ELSE t[i]]

\* the match of fence [ \t]*\n[ \t]*\n fence that starts at i: its last position, or NoMatch
EmptyCodeBlockMatch(t, i) ==
    LET j == FirstNotIn(t, i + 1, BlankChars)
        k == FirstNotIn(t, j + 1, BlankChars)
    IN IF /\ t[i] = "(fence)"
          /\ j <= Len(t) /\ t[j] = NL
          /\ k <= Len(t) /\ t[k] = NL
          /\ k + 1 <= Len(t) /\ t[k + 1] = "(fence)"
       THEN k + 1 ELSE NoMatch

\* generate_atom_feed: re.sub of fence [ \t]*\n[ \t]*\n fence by ""
RECURSIVE EmptyCodeBlockRemovedFrom(_, _)
EmptyCodeBlockRemovedFrom(t, i) ==
    IF i > Len(t) THEN <<>>
    ELSE LET end == EmptyCodeBlockMatch(t, i)
         IN IF end # NoMatch THEN EmptyCodeBlockRemovedFrom(t, end + 1)
            ELSE <<t[i]>> \o EmptyCodeBlockRemovedFrom(t, i + 1)

EmptyCodeBlockRemoved(t) == EmptyCodeBlockRemovedFrom(t, 1)

\* the match of ^\s*\[([^\]]+)\]\s*$ that starts at i
SquareBracketsMatch(t, i) ==
    LET q == FirstNotIn(t, i, SpaceChars)
        r == FirstIn(t, q + 1, {"]"})
        end == TailEnd(t, r + 1)
    IN IF /\ AtLineStart(t, i)
          /\ q <= Len(t) /\ t[q] = "["
          /\ r <= Len(t) /\ r > q + 1
          /\ end # NoMatch
       THEN [ok |-> TRUE, group |-> SubSeq(t, q + 1, r - 1), end |-> end]
       ELSE [ok |-> FALSE]

\* generate_atom_feed: re.sub(r"^\s*\[([^\]]+)\]\s*$", r"# \1", ..., re.MULTILINE)
RECURSIVE SquareBracketsConvertedFrom(_, _)
SquareBracketsConvertedFrom(t, i) ==
    IF i > Len(t) THEN <<>>
    ELSE LET m == SquareBracketsMatch(t, i)
         IN IF m.ok THEN <<"#", " ">> \o m.group \o SquareBracketsConvertedFrom(t, m.end + 1)
            ELSE <<t[i]>> \o SquareBracketsConvertedFrom(t, i + 1)

SquareBracketsConverted(t) == SquareBracketsConvertedFrom(t, 1)

\* str.startswith, str.endswith, str.removeprefix, str.removesuffix
StartsWith(l, pre) == Len(l) >= Len(pre) /\ SubSeq(l, 1, Len(pre)) = pre
EndsWith(l, suf) == Len(l) >= Len(suf) /\ SubSeq(l, Len(l) - Len(suf) + 1, Len(l)) = suf
RemovePrefix(l, pre) == IF StartsWith(l, pre) THEN SubSeq(l, Len(pre) + 1, Len(l)) ELSE l
RemoveSuffix(l, suf) == IF EndsWith(l, suf) THEN SubSeq(l, 1, Len(l) - Len(suf)) ELSE l

Star == <<"(star)">>
BoldStarOpen == <<"*", "*", "(star)">>
BoldStarClose == <<"(star)", "*", "*">>

\* handle_stars: what one line appends to output (nothing for a blank line)
StarLine(raw) ==
    LET line == Strip(raw)
    IN IF StartsWith(line, Star) /\ EndsWith(line, Star)
       THEN <<(<<"#", " ">> \o Strip(RemoveSuffix(RemovePrefix(line, Star), Star)))>>
       ELSE IF StartsWith(line, BoldStarOpen) /\ EndsWith(line, BoldStarClose)
       THEN <<(<<"#", " ">>
               \o Strip(RemoveSuffix(RemovePrefix(line, BoldStarOpen), BoldStarClose)))>>
       ELSE IF StartsWith(line, Star)
       THEN <<(<<"*", " ">> \o Strip(RemovePrefix(line, Star)))>>
       ELSE IF line # <<>> THEN <<line>>
       ELSE <<>>

RECURSIVE StarLines(_)
StarLines(lines) ==
    IF lines = <<>> THEN <<>> ELSE StarLine(Head(lines)) \o StarLines(Tail(lines))

\* handle_stars(text)
HandleStars(text) == Join(StarLines(SplitLines(Strip(text))), <<NL, NL>>)

\* the match of (ball)\s*(.*?)\n that starts at i.  The greedy \s* takes the
\* whole run of whitespace; when no newline follows the rest of that line it
\* gives back to the last newline of the run, and the group is empty.
BallMatch(t, i) ==
    LET e == FirstNotIn(t, i + 1, SpaceChars)
        n == FirstIn(t, e, {NL})
        nls == {j \in (i + 1)..(e - 1) : t[j] = NL}
    IN IF t[i] # "(ball)" THEN [ok |-> FALSE]
       ELSE IF n <= Len(t) THEN [ok |-> TRUE, group |-> SubSeq(t, e, n - 1), end |-> n]
       ELSE IF nls # {} THEN [ok |-> TRUE, group |-> <<>>, end |-> SetMax(nls)]
       ELSE [ok |-> FALSE]

\* generate_atom_feed: re.sub(r"(ball)\s*(.*?)\n", r"\n\n## \1\n\n", ...)
RECURSIVE BallConvertedFrom(_, _)
BallConvertedFrom(t, i) ==
    IF i > Len(t) THEN <<>>
    ELSE LET m == BallMatch(t, i)
         IN IF m.ok
            THEN <<NL, NL, "#", "#", " ">> \o m.group \o <<NL, NL>>
                 \o BallConvertedFrom(t, m.end + 1)
            ELSE <<t[i]>> \o BallConvertedFrom(t, i + 1)

BallConverted(t) == BallConvertedFrom(t, 1)

\* the last character of the line of position e that is not whitespace
\* (t[e] is not whitespace)
LastInLine(t, e) ==
    SetMax({j \in e..(FirstIn(t, e, {NL}) - 1) : t[j] \notin SpaceChars})

\* the match of ^\s*(ref)\s*(\S.*?)\s*$ that starts at i
ReferenceMarkMatch(t, i) ==
    LET q == FirstNotIn(t, i, SpaceChars)
        e == FirstNotIn(t, q + 1, SpaceChars)
    IN IF /\ AtLineStart(t, i)
          /\ q <= Len(t) /\ t[q] = "(ref)"
          /\ e <= Len(t)
       THEN [ok |-> TRUE, group |-> SubSeq(t, e, LastInLine(t, e)),
             end |-> TailEnd(t, LastInLine(t, e) + 1)]
       ELSE [ok |-> FALSE]

\* generate_atom_feed: re.sub(r"^\s*(ref)\s*(\S.*?)\s*$", r"\n\n*\1*\n\n", ..., re.MULTILINE)
RECURSIVE ReferenceMarkConvertedFrom(_, _)
ReferenceMarkConvertedFrom(t, i) ==
    IF i > Len(t) THEN <<>>
    ELSE LET m == ReferenceMarkMatch(t, i)
         IN IF m.ok
            THEN <<NL, NL, "*">> \o m.group \o <<"*", NL, NL>>
                 \o ReferenceMarkConvertedFrom(t, m.end + 1)
            ELSE <<t[i]>> \o ReferenceMarkConvertedFrom(t, i + 1)

ReferenceMarkConverted(t) == ReferenceMarkConvertedFrom(t, 1)

\* generate_atom_feed: number_symbol, in the order of the dict
number_symbol ==
    << <<"(1)", "1">>, <<"(2)", "2">>, <<"(3)", "3">>, <<"(4)", "4">>, <<"(5)", "5">>,
       <<"(6)", "6">>, <<"(7)", "7">>, <<"(8)", "8">>, <<"(9)", "9">>, <<"(10)", "10">> >>

\* the match of ^\s*symbol\s*(.*?)\s*$ that starts at i
CircledMatch(t, i, symbol) ==
    LET q == FirstNotIn(t, i, SpaceChars)
        e == FirstNotIn(t, q + 1, SpaceChars)
    IN IF ~(AtLineStart(t, i) /\ q <= Len(t) /\ t[q] = symbol) THEN [ok |-> FALSE]
       ELSE IF e > Len(t) THEN [ok |-> TRUE, group |-> <<>>, end |-> Len(t)]
       ELSE [ok |-> TRUE, group |-> SubSeq(t, e, LastInLine(t, e)),
             end |-> TailEnd(t, LastInLine(t, e) + 1)]

\* generate_atom_feed: re.sub(rf"^\s*{symbol}\s*(.*?)\s*$", rf"\n\n{number}. \1\n\n", ...)
RECURSIVE CircledConvertedFrom(_, _, _, _)
CircledConvertedFrom(t, i, symbol, number) ==
    IF i > Len(t) THEN <<>>
    ELSE LET m == CircledMatch(t, i, symbol)
         IN IF m.ok
            THEN <<NL, NL, number, ".", " ">> \o m.group \o <<NL, NL>>
                 \o CircledConvertedFrom(t, m.end + 1, symbol, number)
            ELSE <<t[i]>> \o CircledConvertedFrom(t, i + 1, symbol, number)

\* generate_atom_feed: the loop over number_symbol.items()
RECURSIVE CircledNumbersFrom(_, _)
CircledNumbersFrom(t, k) ==
    IF k > Len(number_symbol) THEN t
    ELSE CircledNumbersFrom(CircledConvertedFrom(t, 1, number_symbol[k][1], number_symbol[k][2]),
                            k + 1)

CircledNumbersConverted(t) == CircledNumbersFrom(t, 1)

\* generate_atom_feed: re.sub(r"\\\*(.*)", r"* \1", ...): a backslash and a
\* star, and the rest of the line
RECURSIVE SpaceBeforeStarAddedFrom(_, _)
SpaceBeforeStarAddedFrom(t, i) ==
    IF i > Len(t) THEN <<>>
    ELSE IF t[i] = "\\" /\ i + 1 <= Len(t) /\ t[i + 1] = "*"
    THEN <<"*", " ">> \o SubSeq(t, i + 2, FirstIn(t, i + 2, {NL}) - 1)
         \o SpaceBeforeStarAddedFrom(t, FirstIn(t, i + 2, {NL}))
    ELSE <<t[i]>> \o SpaceBeforeStarAddedFrom(t, i + 1)

SpaceBeforeStarAdded(t) == SpaceBeforeStarAddedFrom(t, 1)

\* format_discord_links: what [^\s)] excludes, and https?://
UrlStop == SpaceChars \cup {"nbsp", ")"}
Schemes == {"https://", "http://"}

\* the start \[([^\]]+)\]\((https?://[^\s)]+) of both patterns, tried at i:
\* r is the position of the closing bracket, u the last position of the URL
LinkHead(t, i) ==
    LET r == FirstIn(t, i + 1, {"]"})
        u == FirstIn(t, r + 3, UrlStop) - 1
    IN IF /\ t[i] = "["
          /\ r > i + 1
          /\ r + 3 <= Len(t)
          /\ t[r + 1] = "("
          /\ t[r + 2] \in Schemes
          /\ u >= r + 3
       THEN [ok |-> TRUE, label |-> SubSeq(t, i + 1, r - 1), url |-> SubSeq(t, r + 2, u), u |-> u]
       ELSE [ok |-> FALSE]

\* the match of \[([^\]]+)\]\((https?://[^\s)]+) "\2"\) that starts at i:
\* the title has to repeat the URL
TitledLinkMatch(t, i) ==
    LET h == LinkHead(t, i)
        end == h.u + 2 + Len(h.url) + 2
    IN IF /\ h.ok
          /\ end <= Len(t)
          /\ t[h.u + 1] = " "
          /\ t[h.u + 2] = "\""
          /\ SubSeq(t, h.u + 3, h.u + 2 + Len(h.url)) = h.url
          /\ t[end - 1] = "\""
          /\ t[end] = ")"
       THEN [ok |-> TRUE, url |-> h.url, end |-> end]
       ELSE [ok |-> FALSE]

\* format_discord_links.repl: re.sub(r"^https?://(www\.)?", "", url)
Display(url) ==
    IF Len(url) >= 2 /\ url[2] = "www." THEN SubSeq(url, 3, Len(url))
    ELSE SubSeq(url, 2, Len(url))

\* format_discord_links: the first re.sub, with repl
RECURSIVE FormattedLinksFrom(_, _)
FormattedLinksFrom(t, i) ==
    IF i > Len(t) THEN <<>>
    ELSE LET m == TitledLinkMatch(t, i)
         IN IF m.ok
            THEN <<"[">> \o Display(m.url) \o <<"]", "(">> \o m.url \o <<")">>
                 \o FormattedLinksFrom(t, m.end + 1)
            ELSE <<t[i]>> \o FormattedLinksFrom(t, i + 1)

\* format_discord_links: the second re.sub,
\* r"\[([^\]]+)\]\((https?://[^\s)]+)\)" by r"[\1](<\2>)"
RECURSIVE AddAngleBracketsFrom(_, _)
AddAngleBracketsFrom(t, i) ==
    IF i > Len(t) THEN <<>>
    ELSE LET h == LinkHead(t, i)
         IN IF h.ok /\ h.u + 1 <= Len(t) /\ t[h.u + 1] = ")"
            THEN <<"[">> \o h.label \o <<"]", "(", "<">> \o h.url \o <<">", ")">>
                 \o AddAngleBracketsFrom(t, h.u + 2)
            ELSE <<t[i]>> \o AddAngleBracketsFrom(t, i + 1)

\* format_discord_links(md)
FormatDiscordLinks(md) == AddAngleBracketsFrom(FormattedLinksFrom(md, 1), 1)

\* markupsafe.escape
EscapeChar(c) ==
    CASE c = "&" -> "&amp;"
      [] c = "<" -> "&lt;"
      [] c = ">" -> "&gt;"
      [] c = "'" -> "&#39;"
      [] c = "\"" -> "&#34;"
      [] OTHER -> c

Escape(t) == [i \in 1..Len(t) |-> EscapeChar(t[i])]

\* mdformat.text renders one line: surrounding blanks go (a heading or a
\* bullet without text is its marker alone), and the bullet marker is "-"
MdLine(raw) ==
    LET line == Strip(raw)
    IN IF line = <<"*">> THEN <<"-">>
       ELSE IF StartsWith(line, <<"*", " ">>)
       THEN <<"-", " ">> \o Strip(SubSeq(line, 3, Len(line)))
       ELSE line

RECURSIVE MdLines(_)
MdLines(lines) ==
    IF lines = <<>> THEN <<>>
    ELSE IF Strip(Head(lines)) = <<>> THEN MdLines(Tail(lines))
    ELSE <<MdLine(Head(lines))>> \o MdLines(Tail(lines))

\* mdformat.text(space_before_star_added, options={"number": True}), on the
\* documents the stages produce: paragraphs, headings and bullets of one line
\* each, every one set off by blank lines (handle_stars joins its lines with a
\* blank line, and each later replacement is wrapped in blank lines).  The
\* blocks come back one blank line apart with one final newline; an empty
\* document stays empty.
MdFormat(t) ==
    LET blocks == MdLines(SplitLines(t))
    IN IF blocks = <<>> THEN <<>> ELSE Join(blocks, <<NL, NL>>) \o <<NL>>

\* generate_atom_feed: from xa0_removed to space_before_star_added
StagesBeforeFormat(t) ==
    SpaceBeforeStarAdded(
      CircledNumbersConverted(
        ReferenceMarkConverted(
          BallConverted(
            HandleStars(
              SquareBracketsConverted(
                EmptyCodeBlockRemoved(
                  NonBreakingSpaceRemoved(t))))))))

\* generate_atom_feed: from xa0_removed to article_escaped
Normalize(t) == Escape(FormatDiscordLinks(MdFormat(StagesBeforeFormat(t))))

Placeholder == <<"No content available">>

\* generate_atom_feed: article_escaped, given what the converter returned
ArticleEscaped(article_content_converted) ==
    Normalize(IF article_content_converted = <<>> THEN Placeholder
              ELSE article_content_converted)

\* --------------------------------------------------------------- main
SyncInit ==
    /\ pc = "idle"
    /\ runs = 0
    /\ mirror = [id \in Ids |-> NoFile]
    /\ mtime = [id \in Ids |-> 0]
    /\ gitLog = <<>>
    /\ staged = {}
    /\ menu_data = <<>>
    /\ existing_files = {}
    /\ new_article_ids = <<>>
    /\ results = <<>>
    /\ write_results = <<>>
    /\ exit_code = "-"
    /\ commitCalls = <<>>
    /\ mirror0 = [id \in Ids |-> NoFile]
    /\ mtime0 = [id \in Ids |-> 0]
    /\ gitLog0 = <<>>

MergeIdle ==
    /\ m_pc = "start"
    /\ m_record = [articleTitle |-> "old"]
    /\ m_item = [articleTitle |-> "new"]
    /\ m_merged = [articleTitle |-> "old"]
    /\ m_again = [articleTitle |-> "old"]

FeedIdle ==
    /\ f_pc = "start"
    /\ f_loaded = <<>>
    /\ f_first = [raised |-> FALSE, written |-> FALSE]
    /\ f_second = [raised |-> FALSE, written |-> FALSE]

NormIdle ==
    /\ n_pc = "start"
    /\ n_converted = <<>>
    /\ n_content = <<>>
    /\ n_again = <<>>

LinkIdle ==
    /\ l_pc = "start"
    /\ l_parts = <<>>
    /\ l_links = <<>>

Init == SyncInit /\ MergeIdle /\ FeedIdle /\ NormIdle /\ LinkIdle

\* main is entered: the run counter and the snapshots of the run's start
BeginRun ==
    /\ pc \in {"idle", "done"}
    /\ runs < MaxRuns
    /\ runs' = runs + 1
    /\ mirror0' = mirror
    /\ mtime0' = mtime
    /\ gitLog0' = gitLog
    /\ commitCalls' = <<>>
    /\ write_results' = <<>>
    /\ UNCHANGED <<mirror, mtime, gitLog, staged, mergeVars, feedVars, normVars, linkVars>>

\* main: fetch_json(article_menu_url) returns None (RequestError, JSONDecodeError)
\* and main returns 1, or raise_for_status raises HTTPStatusError out of main.
FetchMenuFails ==
    /\ BeginRun
    /\ \E e \in {"1", "raised"} : exit_code' = e
    /\ pc' = "done"
    /\ menu_data' = <<>>
    /\ existing_files' = {}
    /\ new_article_ids' = <<>>
    /\ results' = <<>>

\* main: the menu is fetched; an empty menu or one without ids returns 1,
\* otherwise the new ids are planned and their downloads are started.
FetchMenu ==
    /\ BeginRun
    /\ \E menu \in Indexes :
        /\ menu_data' = menu
        /\ IF menu = <<>> \/ ArticleIds(menu) = <<>>
           THEN /\ exit_code' = "1"
                /\ pc' = "done"
                /\ existing_files' = {}
                /\ new_article_ids' = <<>>
                /\ results' = <<>>
           ELSE /\ exit_code' = "-"
                /\ pc' = "fetching"
                /\ existing_files' = ExistingFiles(mirror)
                /\ new_article_ids' = NewArticleIds(ArticleIds(menu), ExistingFiles(mirror))
                /\ results' = [i \in 1..Len(NewArticleIds(ArticleIds(menu),
                                                          ExistingFiles(mirror))) |-> Pending]

\* One download task of asyncio.gather completes, in any order; its result is
\* stored at the position of its request.
CompleteFetch ==
    /\ pc = "fetching"
    /\ \E i \in 1..Len(results) :
        /\ results[i] = Pending
        /\ \E r \in FetchOutcomes : results' = [results EXCEPT ![i] = r]
    /\ UNCHANGED <<pc, runs, mirror, mtime, gitLog, staged, menu_data, existing_files,
                   new_article_ids, write_results, exit_code, commitCalls,
                   mirror0, mtime0, gitLog0, mergeVars, feedVars, normVars, linkVars>>

\* main after asyncio.gather returned: save the results, add_data_to_articles,
\* create_atom_feeds, batch_process_timestamps, return 0.  No step of it awaits
\* the network, so it runs without interleaving.
ProcessResults ==
    /\ pc = "fetching"
    /\ \A i \in 1..Len(results) : results[i] # Pending
    /\ \E w \in [1..Len(results) -> WriteOutcomes] :
        /\ \A i \in 1..Len(results) : ~IsSavedResult(results[i]) => w[i] = "ok"
        /\ LET now == Now(runs)
               saved == SaveResults(1, new_article_ids, results, w,
                                    [mirror |-> mirror, mtime |-> mtime], now)
               merged == AddDataToArticles(menu_data, saved, now)
               feeds == CreateAtomFeeds(LoadArticles(merged.mirror, 1), now, 0)
           IN /\ mirror' = merged.mirror
              /\ write_results' = w
              /\ IF feeds.raised
                 THEN /\ exit_code' = "raised"
                      /\ mtime' = merged.mtime
                      /\ UNCHANGED <<gitLog, staged, commitCalls>>
                 ELSE \E c \in [Ids -> CommitOutcomes] :
                        LET todo == FilesToUpdate(menu_data, merged.mirror, merged.mtime)
                            hw == BatchProcessTimestamps(menu_data, merged.mirror, merged.mtime,
                                                         gitLog, staged, c)
                        IN /\ \A id \in Ids :
                                (\A i \in 1..Len(todo) : todo[i].id # id) => c[id] = "ok"
                           /\ exit_code' = "0"
                           /\ mtime' = hw.mtime
                           /\ gitLog' = hw.gitLog
                           /\ staged' = hw.staged
                           /\ commitCalls' = hw.calls
    /\ pc' = "done"
    /\ UNCHANGED <<runs, menu_data, existing_files, new_article_ids, results,
                   mirror0, mtime0, gitLog0, mergeVars, feedVars, normVars, linkVars>>

Next == FetchMenuFails \/ FetchMenu \/ CompleteFetch \/ ProcessResults

Spec == Init /\ [][Next]_vars

\* ====================================================================
\* Properties of the synchronisation run (specification Spec)
\* ====================================================================

Present0 == {id \in Ids : mirror0[id] # NoFile}

\* The plan the claim describes: the index entries that carry an id absent from
\* the mirror, in index order.
RECURSIVE PlanOf(_, _)
PlanOf(menu, present) ==
    IF menu = <<>> THEN <<>>
    ELSE IF "articleId" \in DOMAIN Head(menu) /\ Head(menu).articleId \notin present
         THEN <<Head(menu).articleId>> \o PlanOf(Tail(menu), present)
         ELSE PlanOf(Tail(menu), present)

\* C1: in every run the ids fetched (one download per element of
\* new_article_ids) are exactly the ids of the index entries that have an id and
\* are absent from the mirror as it was when the run started, in index order;
\* no id present in the mirror at the start of the run is fetched.
C1_PlanIsAbsentIdsInIndexOrder ==
    /\ new_article_ids = PlanOf(menu_data, Present0)
    /\ Len(results) = Len(new_article_ids)
    /\ \A i \in 1..Len(new_article_ids) : new_article_ids[i] \notin Present0

\* C1 witness: a second run whose index lists id 1 (already mirrored) before
\* id 2 (absent) plans exactly <<2>>.
C1_Witness ==
    /\ pc = "fetching"
    /\ runs = 2
    /\ Len(menu_data) = 2
    /\ "articleId" \in DOMAIN menu_data[1] /\ menu_data[1].articleId = 1
    /\ "articleId" \in DOMAIN menu_data[2] /\ menu_data[2].articleId = 2
    /\ 1 \in Present0
    /\ new_article_ids = <<2>>

\* The downloads of id in the run, and those that returned a record.
FetchesOf(id) == {i \in 1..Len(new_article_ids) : new_article_ids[i] = id}
SucceededFetchesOf(id) == {i \in FetchesOf(id) : results[i].kind = "dict"}

BatchProcessed == pc = "done" /\ exit_code \in {"0", "raised"}

\* C2: after the fetch batch of a run, whatever subset of the downloads failed
\* (exception, None, not a JSON object) and in whatever order they completed:
\* every file present before the run is unchanged; an id none of whose
\* downloads succeeded has no file (so the next run plans it again); an id whose
\* download succeeded holds that download's record, stored under its own id,
\* provided writing the file did not fail; and no other record appears.
C2_FetchFailuresAreIsolated ==
    BatchProcessed =>
        \A id \in Ids :
            /\ id \in Present0 => mirror[id] = mirror0[id]
            /\ (id \notin Present0 /\ SucceededFetchesOf(id) = {}) => mirror[id] = NoFile
            /\ (/\ id \notin Present0
                /\ SucceededFetchesOf(id) # {}
                /\ \A i \in SucceededFetchesOf(id) : write_results[i] = "ok")
               => \E i \in SucceededFetchesOf(id) : mirror[id] = Json(results[i].body)
            /\ (id \notin Present0 /\ mirror[id].kind = "json")
               => \E i \in SucceededFetchesOf(id) :
                     write_results[i] = "ok" /\ mirror[id] = Json(results[i].body)

\* C2 witness: two downloads, the first raised, the second returned a record,
\* and the batch was processed: only the second id has a file.
C2_Witness ==
    /\ BatchProcessed
    /\ new_article_ids = <<1, 2>>
    /\ results[1].kind = "exc"
    /\ results[2].kind = "dict"
    /\ mirror[1] = NoFile
    /\ mirror[2] = Json(results[2].body)

EntriesOf(log, id) == {i \in 1..Len(log) : id \in log[i].files}

\* C3: the Git history never holds more than one commit for an article file;
\* and a call of commit_file_with_timestamp on a file that already has a
\* commit stages nothing and commits nothing, and returns True whenever its
\* query of the history (git log) itself did not fail.
C3_AtMostOneHistoryEntryPerFile ==
    /\ \A id \in Ids : Cardinality(EntriesOf(gitLog, id)) <= 1
    /\ \A k \in 1..Len(commitCalls) :
         LET call == commitCalls[k]
         IN LogHas(call.logBefore, call.file) =>
              /\ call.logAfter = call.logBefore
              /\ call.stagedAfter = call.stagedBefore
              /\ call.outcome # "log_error" => call.result = TRUE

\* C3 witness: the writer is called on a file that already has a commit (its
\* createTime in the index changed), and returns True.
C3_Witness ==
    \E k \in 1..Len(commitCalls) :
        /\ LogHas(commitCalls[k].logBefore, commitCalls[k].file)
        /\ commitCalls[k].result = TRUE
        /\ Cardinality(EntriesOf(gitLog, commitCalls[k].file)) = 1

\* The file of id was TimestampSet when the run started: it existed, its mtime
\* was the parsed createTime the run's index gives it, and it had no commit.
TimestampSetAtStart(id) ==
    LET keys == TimestampMapKeys(menu_data, {})
        ct == TimestampMapValue(menu_data, id, EmptyStr)
    IN /\ \E i \in 1..Len(keys) : keys[i] = id
       /\ mirror0[id] # NoFile
       /\ Parses(ct)
       /\ mtime0[id] = ct.t
       /\ ~LogHas(gitLog0, id)

\* C4: a file whose mtime was set to its createTime but whose commit failed is
\* processed again by the next run over the same index: a run that completes
\* calls commit_file_with_timestamp on every file that was TimestampSet (and
\* uncommitted) when it started.
C4_FailedCommitIsRetried ==
    (pc = "done" /\ exit_code = "0") =>
        \A id \in Ids :
            TimestampSetAtStart(id) => \E k \in 1..Len(commitCalls) : commitCalls[k].file = id

\* C5: after add_data_to_articles has run for an index entry whose article file
\* exists, the record in the mirror defines every key of EnrichKeys that the
\* entry defines, keeping its own value where it had one.
C5_EnrichedKeysArePersisted ==
    BatchProcessed =>
        \A i \in 1..Len(menu_data) :
            LET item == menu_data[i]
                id == Get(item, "articleId", 0)
            IN ("articleId" \in DOMAIN item /\ mirror[id].kind = "json") =>
                 \A k \in EnrichKeys \cap DOMAIN item :
                    /\ k \in DOMAIN mirror[id].data
                    /\ (mirror0[id].kind = "json" /\ k \in DOMAIN mirror0[id].data)
                       => mirror[id].data[k] = mirror0[id].data[k]

\* C7: a run whose index is non-empty and yields at least one id runs to
\* completion and returns 0, whatever fails for a single item.
C7_RunWithUsableIndexReturnsZero ==
    (pc = "done" /\ ArticleIds(menu_data) # <<>>) => exit_code = "0"

\* C14: within one run the files are handed to commit_file_with_timestamp in
\* non-decreasing createTime order, whatever the order of the index, and the
\* commits the run appends to the history are in non-decreasing time order.
C14_HistoryWriterIsOldestFirst ==
    /\ \A k, l \in 1..Len(commitCalls) :
         k < l => commitCalls[k].create_time.t <= commitCalls[l].create_time.t
    /\ \A i, j \in (Len(gitLog0) + 1)..Len(gitLog) :
         (pc = "done" /\ i < j) => gitLog[i].time <= gitLog[j].time

\* The mtimes of the article files when batch_process_timestamps is entered:
\* the run's saves and add_data_to_articles have written their files.
MtimeBeforeHistory ==
    AddDataToArticles(menu_data,
                      SaveResults(1, new_article_ids, results, write_results,
                                  [mirror |-> mirror0, mtime |-> mtime0], Now(runs)),
                      Now(runs)).mtime

\* C15: every commit a run appends carries, for each file it commits, the
\* mtime that file has when the commit is made; the mtime of the file the
\* writer is called for has been set to its parsed createTime before the call;
\* and a file of the index whose createTime does not parse keeps the mtime it
\* had when the History Writer started and gets no commit in that run.
C15_EntryTimeIsFileMtime ==
    (pc = "done" /\ exit_code = "0") =>
        /\ \A k \in 1..Len(commitCalls) :
             LET call == commitCalls[k]
             IN /\ Parses(call.create_time)
                /\ call.mtime = call.create_time.t
                /\ call.logAfter # call.logBefore =>
                     \A f \in call.logAfter[Len(call.logAfter)].files :
                        call.logAfter[Len(call.logAfter)].time = call.mtimes[f]
        /\ \A i \in 1..Len(menu_data) :
             LET id == Get(menu_data[i], "articleId", 0)
             IN ("articleId" \in DOMAIN menu_data[i]
                 /\ ~Parses(TimestampMapValue(menu_data, id, EmptyStr))) =>
                    /\ mtime[id] = MtimeBeforeHistory[id]
                    /\ EntriesOf(gitLog, id) = EntriesOf(gitLog0, id)

\* ====================================================================
\* The Field Enrichment Merger on its own (specification MergeSpec)
\* ====================================================================

MergeKeyNames == EnrichKeys \cup {"articleTitle"}

\* Every dict over MergeKeyNames with values in vals (a key may be absent).
DictsOver(vals) ==
    UNION {[ks -> vals] : ks \in SUBSET MergeKeyNames}

MergeInit ==
    /\ SyncInit
    /\ FeedIdle
    /\ NormIdle
    /\ LinkIdle
    /\ m_pc = "start"
    /\ m_record \in DictsOver({"old"})
    /\ m_item \in {e \in DictsOver({"old", "new"}) :
                      "articleTitle" \in DOMAIN e /\ e.articleTitle = "new"}
    /\ m_merged = m_record
    /\ m_again = m_record

\* add_data_to_articles: the merge loop on the record read from the file
MergeOnce ==
    /\ m_pc = "start"
    /\ m_merged' = MergeKeys(m_record, m_item)
    /\ m_pc' = "merged"
    /\ UNCHANGED <<m_record, m_item, m_again, syncVars, feedVars, normVars, linkVars>>

\* add_data_to_articles: the merge loop on the already merged record (the next run)
MergeAgain ==
    /\ m_pc = "merged"
    /\ m_again' = MergeKeys(m_merged, m_item)
    /\ m_pc' = "again"
    /\ UNCHANGED <<m_record, m_item, m_merged, syncVars, feedVars, normVars, linkVars>>

MergeNext == MergeOnce \/ MergeAgain

MergeSpec == MergeInit /\ [][MergeNext]_vars

\* C6: merging an index entry into a record changes the value of no key the
\* record already defined, and merging the same entry a second time changes
\* nothing: merge(merge(r, e), e) = merge(r, e).
C6_MergeKeepsKeysAndIsIdempotent ==
    /\ m_pc \in {"merged", "again"} =>
         \A k \in DOMAIN m_record : k \in DOMAIN m_merged /\ m_merged[k] = m_record[k]
    /\ m_pc = "again" => m_again = m_merged

\* C6 witness: the entry defines a key the record has with another value, and a
\* key the record lacks (so the merge added something), and was merged twice.
C6_Witness ==
    /\ m_pc = "again"
    /\ \E k \in EnrichKeys \cap DOMAIN m_record \cap DOMAIN m_item : m_record[k] # m_item[k]
    /\ \E k \in (EnrichKeys \cap DOMAIN m_item) \ DOMAIN m_record : m_merged[k] = m_item[k]

\* ====================================================================
\* The Feed Assembler on its own (specification FeedSpec)
\* ====================================================================

\* createTime values of mirror records: before, at and after the Unix epoch
FeedCreateTimes == {BadStr} \cup {TimeStr(t) : t \in (0 - 1)..MaxTime}

FeedRecords ==
    {[articleTitle |-> "T"], [articleTitle |-> "T", articleId |-> 1]}
    \cup {[articleTitle |-> "T", createTime |-> c] : c \in FeedCreateTimes}
    \cup {[articleTitle |-> "T", articleId |-> 1, createTime |-> c] : c \in FeedCreateTimes}

\* PYTHONHASHSEED is unset: each interpreter process draws its own hash seed
HashSeeds == {"seedA", "seedB"}

FeedInit ==
    /\ SyncInit
    /\ MergeIdle
    /\ NormIdle
    /\ LinkIdle
    /\ f_pc = "start"
    /\ f_loaded \in UNION {[1..n -> FeedRecords] : n \in 0..MaxFeedLen}
    /\ f_first = [raised |-> FALSE, written |-> FALSE]
    /\ f_second = [raised |-> FALSE, written |-> FALSE]

\* create_atom_feeds in one process
AssembleFirst ==
    /\ f_pc = "start"
    /\ \E seed \in HashSeeds : f_first' = CreateAtomFeeds(f_loaded, Now(1), seed)
    /\ f_pc' = "first"
    /\ UNCHANGED <<f_loaded, f_second, syncVars, mergeVars, normVars, linkVars>>

\* create_atom_feeds in another process, over the same records
AssembleSecond ==
    /\ f_pc = "first"
    /\ \E seed \in HashSeeds : f_second' = CreateAtomFeeds(f_loaded, Now(1), seed)
    /\ f_pc' = "second"
    /\ UNCHANGED <<f_loaded, f_first, syncVars, mergeVars, normVars, linkVars>>

FeedNext == AssembleFirst \/ AssembleSecond

FeedSpec == FeedInit /\ [][FeedNext]_vars

\* The parsed createTime an entry carries (its published element), if any.
HasPublished(e) == e.published # EmptyStr

OrderedFeed(feed) ==
    \A i, j \in 1..Len(feed.entries) :
        (i < j /\ HasPublished(feed.entries[j])) =>
            /\ HasPublished(feed.entries[i])
            /\ feed.entries[i].published.t >= feed.entries[j].published.t

\* C8: the entries of each assembled feed are in non-increasing createTime
\* order, every record without a parsed createTime after all records with one;
\* the bounded feed is the first min(20, n) entries of the full feed.
C8_FeedIsNewestFirstUnparsedLast ==
    (f_pc # "start" /\ f_first.written) =>
        /\ OrderedFeed(f_first.all)
        /\ OrderedFeed(f_first.latest)
        /\ f_first.latest.entries =
             SubSeq(f_first.all.entries, 1, Min(amount_of_articles, Len(f_first.all.entries)))

\* C9: the id of a feed entry is a function of the record alone, urn:article:<id>
\* when the record has an articleId; two processes run over identical records
\* produce identical entry ids, fallback ids included.
C9_EntryIdsAreStableAcrossProcesses ==
    (f_pc = "second" /\ f_first.written /\ f_second.written) =>
        \A i \in 1..Len(f_first.all.entries) :
            /\ f_first.all.entries[i].id = f_second.all.entries[i].id
            /\ "articleId" \in DOMAIN SortArticles(f_loaded)[i] =>
                 f_first.all.entries[i].id =
                    [urn |-> "article", id |-> SortArticles(f_loaded)[i].articleId]

\* C10: in a feed assembled from a non-empty record sequence each entry has a
\* published element exactly when its createTime parses, its updated value is
\* its own parsed createTime or else the feed's latest-entry timestamp, and
\* neither an entry nor the feed header has an empty updated value.
C10_UpdatedIsNeverEmpty ==
    (f_pc # "start" /\ f_first.written) =>
        /\ f_first.all.updated # EmptyStr
        /\ \A i \in 1..Len(f_first.all.entries) :
             LET e == f_first.all.entries[i]
                 ct == Get(SortArticles(f_loaded)[i], "createTime", EmptyStr)
             IN /\ HasPublished(e) <=> Parses(ct)
                /\ e.updated # EmptyStr
                /\ e.updated = IF Parses(ct) THEN Iso(ct.t) ELSE f_first.all.updated

\* ====================================================================
\* format_discord_links on its own (specification LinkSpec)
\* ====================================================================

\* The Markdown handed to format_discord_links: links, with or without a
\* title, and text between them.  An absent title is <<>>.
LinkLabels == {<<"Label">>, <<"x.com">>}
LinkUrls == {<<"https://", "x.com">>, <<"http://", "www.", "x.com">>}
LinkTitles(label, url) == {<<>>, label, url, <<"About">>}

LinkParts ==
    {[kind |-> "text", s |-> <<"see", " ">>]}
    \cup UNION {UNION {{[kind |-> "link", label |-> label, url |-> url, title |-> title] :
                           title \in LinkTitles(label, url)} :
                       url \in LinkUrls} :
                label \in LinkLabels}

\* the characters of a part: [label](url) or [label](url "title")
RenderPart(part) ==
    IF part.kind = "text" THEN part.s
    ELSE <<"[">> \o part.label \o <<"]", "(">> \o part.url
         \o (IF part.title = <<>> THEN <<>> ELSE <<" ", "\"">> \o part.title \o <<"\"">>)
         \o <<")">>

RECURSIVE RenderParts(_)
RenderParts(parts) ==
    IF parts = <<>> THEN <<>> ELSE RenderPart(Head(parts)) \o RenderParts(Tail(parts))

LinkInit ==
    /\ SyncInit
    /\ MergeIdle
    /\ FeedIdle
    /\ NormIdle
    /\ l_pc = "start"
    /\ l_parts \in UNION {[1..n -> LinkParts] : n \in 1..MaxLinkParts}
    /\ l_links = <<>>

\* generate_atom_feed: links_fixed = format_discord_links(markdown_formatted)
SimplifyLinks ==
    /\ l_pc = "start"
    /\ l_links' = FormatDiscordLinks(RenderParts(l_parts))
    /\ l_pc' = "done"
    /\ UNCHANGED <<l_parts, syncVars, mergeVars, feedVars, normVars>>

LinkNext == SimplifyLinks

LinkSpec == LinkInit /\ [][LinkNext]_vars

\* what the claim says a part becomes: [label](<url>), the text as it was
SimplifiedPart(part) ==
    IF part.kind = "text" THEN part.s
    ELSE <<"[">> \o part.label \o <<"]", "(", "<">> \o part.url \o <<">", ")">>

RECURSIVE SimplifiedParts(_)
SimplifiedParts(parts) ==
    IF parts = <<>> THEN <<>> ELSE SimplifiedPart(Head(parts)) \o SimplifiedParts(Tail(parts))

\* C12: format_discord_links rewrites every link of its input to
\* [label](<url>): the title is gone (also a title equal to the label), the
\* label is kept and the URL is in angle brackets; the text between the links
\* is unchanged.
C12_EveryLinkIsSimplified ==
    l_pc = "done" => l_links = SimplifiedParts(l_parts)

\* ====================================================================
\* The content of a feed entry (specification NormSpec)
\* ====================================================================

\* What converter.convert(article_content).strip() returned: every text of at
\* most MaxTextLen characters that does not start or end with whitespace, and
\* the code blocks that hold nothing but blanks.
TextChars == {"a", "(ball)", "(star)", NL}

BlankCodeBlocks ==
    {<<"(fence)", NL, NL, "(fence)">>,
     <<"(fence)", NL, " ", NL, "(fence)">>,
     <<"(fence)", " ", NL, NL, "(fence)">>}

ConvertedTexts ==
    {t \in UNION {[1..n -> TextChars] : n \in 0..MaxTextLen} : Strip(t) = t}
    \cup BlankCodeBlocks

NormInit ==
    /\ SyncInit
    /\ MergeIdle
    /\ FeedIdle
    /\ LinkIdle
    /\ n_pc = "start"
    /\ n_converted \in ConvertedTexts
    /\ n_content = <<>>
    /\ n_again = <<>>

\* generate_atom_feed: the content of the entry, from the emptiness test on
\* article_content_converted to article_escaped
NormalizeContent ==
    /\ n_pc = "start"
    /\ n_content' = ArticleEscaped(n_converted)
    /\ n_pc' = "once"
    /\ UNCHANGED <<n_converted, n_again, syncVars, mergeVars, feedVars, linkVars>>

\* the stages applied to their own output
NormalizeAgain ==
    /\ n_pc = "once"
    /\ n_again' = Normalize(n_content)
    /\ n_pc' = "twice"
    /\ UNCHANGED <<n_converted, n_content, syncVars, mergeVars, feedVars, linkVars>>

NormNext == NormalizeContent \/ NormalizeAgain

NormSpec == NormInit /\ [][NormNext]_vars

\* C11: the content of a feed entry is never empty: whenever the stages leave
\* no text (the converted content was empty, or was only material the stages
\* delete, such as a code block of blanks) the content is the placeholder.
C11_ContentIsNeverEmpty ==
    n_pc # "start" =>
        /\ n_content # <<>>
        /\ StagesBeforeFormat(n_converted) = <<>> => n_content = Placeholder

\* C13: the stages applied to their own output give that output again.
C13_NormalizeIsIdempotent ==
    n_pc = "twice" => n_again = n_content

====
